---- MODULE Spec2Model ----
(***************************************************************************)
(* N-Queens on an N x N x N lattice (script.js): the attack rule, the      *)
(* conflict scan, the level-target table, the progress state machine of    *)
(* updateDisplay, the camera-relative layer slicing and the persistence    *)
(* of best scores and of the last session.                                 *)
(*                                                                         *)
(* script.js holds two variants of the program one after the other; the    *)
(* model follows the later one (lines 572-1510), which has the session     *)
(* store.  The functions the two variants share are identical.             *)
(***************************************************************************)
EXTENDS Integers, Sequences, FiniteSets, TLC

VARIABLES
    currentLevel,   \* let currentLevel
    N,              \* let N
    board,          \* let board: board[z][y][x], 0-based nested arrays of booleans
    cubes,          \* let cubes: the userData {x,y,z} of the clickable cubes
    cubeVisible,    \* cube.visible, as the set of userData whose cube is visible
    queens,         \* let queens: the userData of the queen meshes, in creation order
    queenVisible,   \* queen.visible, as the set of userData whose queen is visible
    conflictSet,    \* the queens painted CONFLICT_COLOR by the last updateDisplay
    conflictCount,  \* the number of conflict indicators shown
    levelCompleted, \* let levelCompleted
    unlockStatus,   \* let unlockStatus: "none" | "perfect"
    nextLevelBtn,   \* nextLevelBtn.disabled = FALSE, as "enabled"
    notified,       \* the message of the showSuccessMessage call of the last step, or "none"
    hiddenLayers,   \* let hiddenLayers
    camera,         \* the camera's world direction, as an integer vector (not normalised)
    bestScores,     \* let bestScores: level -> score, 0 where the object has no entry
    lastSession,    \* let lastSession: {level, board}
    userId,         \* let userId: "none" until the auth callback stores user.uid
    gameStarted,    \* let gameStarted (closure of initializeFirebase)
    signIn,         \* the awaited signIn...() promise: "pending" | "ok" | "failed"
    authUser,       \* the user Firebase Auth holds (it outlives a page load), or "none"
    loadState,      \* the getDoc of loadGameData: "idle" | "pending" | "done"
    saveQueue,      \* the setDoc writes issued and not yet settled, oldest first
    stored,         \* the remote document {exists, scores, lastSession}
    session,        \* number of page loads so far (the store outlives a page load)
    lastOp,         \* the handler that ran in the last step, with its inputs
    call,           \* a direct call of one of the pure functions, with its arguments
    ret,            \* the value that call returned, "pending" before it ran
    isCreativeMode  \* let isCreativeMode (the earlier variant only; false in the later)

vars == << currentLevel, N, board, cubes, cubeVisible, queens, queenVisible,
           conflictSet, conflictCount, levelCompleted, unlockStatus,
           nextLevelBtn, notified, hiddenLayers, camera, bestScores,
           lastSession, userId, gameStarted, signIn, authUser, loadState,
           saveQueue, stored, session, lastOp, call, ret, isCreativeMode >>

gameVars == << currentLevel, N, board, cubes, cubeVisible, queens,
               queenVisible, conflictSet, conflictCount, levelCompleted,
               unlockStatus, nextLevelBtn, notified, hiddenLayers >>

storeVars == << userId, gameStarted, signIn, authUser, loadState, saveQueue,
                stored, session >>

(***************************************************************************)
(* Bounds of the model.                                                    *)
(***************************************************************************)
MaxLevel == 2        \* highest level the player may start
SliceLevel == 3      \* highest level where only the layer slicing is explored
SliceQueens == 1     \* queens on the board there
MaxQueens == 3       \* queens on the board before placing one more is cut off
StoreQueens == 1     \* queens on the board where the store is explored
MaxSaves == 2        \* setDoc writes in flight at once
MaxSessions == 2     \* page loads
MaxArg == 60         \* largest level handed to getLevelTarget directly
AttackSide == 3      \* lattice side of the cells handed to isQueenAttacking directly
ConflictSide == 3    \* lattice side of the queens handed to getConflicts directly
SearchSide == 4      \* largest board searched for its maximum placement
SolveOpen == 2       \* queens of a largest placement still to be placed at the start
MaxList == 3         \* longest list of queens handed to getConflicts directly

Min(a, b) == IF a < b THEN a ELSE b
Max(a, b) == IF a > b THEN a ELSE b
Abs(a) == IF a < 0 THEN -a ELSE a
Sign(a) == IF a > 0 THEN 1 ELSE IF a < 0 THEN -1 ELSE 0

\* userData {x, y, z}
Cell(x, y, z) == [x |-> x, y |-> y, z |-> z]
Cells(n) == { Cell(x, y, z) : x \in 0..(n-1), y \in 0..(n-1), z \in 0..(n-1) }

(***************************************************************************)
(* Attack rule                                                             *)
(***************************************************************************)
isQueenAttacking_SameCellAttacks(x1, y1, z1, x2, y2, z2) ==
    LET dx == Abs(x1 - x2)
        dy == Abs(y1 - y2)
        dz == Abs(z1 - z2)
    IN  IF (dx = 0 /\ dy = 0) \/ (dx = 0 /\ dz = 0) \/ (dy = 0 /\ dz = 0) THEN TRUE
        ELSE IF (dx = 0 /\ dy = dz) \/ (dy = 0 /\ dx = dz) \/ (dz = 0 /\ dx = dy) THEN TRUE
        ELSE IF dx = dy /\ dy = dz THEN TRUE
        ELSE FALSE

isQueenAttacking_NoSpaceDiagonal(x1, y1, z1, x2, y2, z2) ==
    IF x1 = x2 /\ y1 = y2 /\ z1 = z2 THEN FALSE
    ELSE
    LET dx == Abs(x1 - x2)
        dy == Abs(y1 - y2)
        dz == Abs(z1 - z2)
    IN  IF (dx = 0 /\ dy = 0) \/ (dx = 0 /\ dz = 0) \/ (dy = 0 /\ dz = 0) THEN TRUE
        ELSE IF (dx = 0 /\ dy = dz) \/ (dy = 0 /\ dx = dz) \/ (dz = 0 /\ dx = dy) THEN TRUE
        ELSE FALSE

isQueenAttacking_SignedDx(x1, y1, z1, x2, y2, z2) ==
    IF x1 = x2 /\ y1 = y2 /\ z1 = z2 THEN FALSE
    ELSE
    LET dx == x1 - x2
        dy == Abs(y1 - y2)
        dz == Abs(z1 - z2)
    IN  IF (dx = 0 /\ dy = 0) \/ (dx = 0 /\ dz = 0) \/ (dy = 0 /\ dz = 0) THEN TRUE
        ELSE IF (dx = 0 /\ dy = dz) \/ (dy = 0 /\ dx = dz) \/ (dz = 0 /\ dx = dy) THEN TRUE
        ELSE IF dx = dy /\ dy = dz THEN TRUE
        ELSE FALSE

isQueenAttacking(x1, y1, z1, x2, y2, z2) ==
    IF x1 = x2 /\ y1 = y2 /\ z1 = z2 THEN FALSE
    ELSE
    LET dx == Abs(x1 - x2)
        dy == Abs(y1 - y2)
        dz == Abs(z1 - z2)
    IN  IF (dx = 0 /\ dy = 0) \/ (dx = 0 /\ dz = 0) \/ (dy = 0 /\ dz = 0) THEN TRUE
        ELSE IF (dx = 0 /\ dy = dz) \/ (dy = 0 /\ dx = dz) \/ (dz = 0 /\ dx = dy) THEN TRUE
        ELSE IF dx = dy /\ dy = dz THEN TRUE
        ELSE FALSE

(***************************************************************************)
(* Conflict scan                                                           *)
(***************************************************************************)
\* the pairs (i, j), j > i, of the two loops whose queens attack each other
AttackingPairs(queensList) ==
    { p \in (1..Len(queensList)) \X (1..Len(queensList)) :
        /\ p[1] < p[2]
        /\ isQueenAttacking(queensList[p[1]].x, queensList[p[1]].y, queensList[p[1]].z,
                            queensList[p[2]].x, queensList[p[2]].y, queensList[p[2]].z) }

getConflicts_FirstOnly(queensList) ==
    LET set == { queensList[p[1]] : p \in AttackingPairs(queensList) }
    IN  [count |-> Cardinality(set), set |-> set]

getConflicts_CountsPairs(queensList) ==
    LET set == UNION { {queensList[p[1]], queensList[p[2]]} : p \in AttackingPairs(queensList) }
    IN  [count |-> Cardinality(AttackingPairs(queensList)), set |-> set]

getConflicts_AddsEveryFirst(queensList) ==
    LET set == UNION { {queensList[p[1]], queensList[p[2]]} : p \in AttackingPairs(queensList) }
               \cup { queensList[i] : i \in 1..Len(queensList) }
    IN  [count |-> Cardinality(set), set |-> set]

getConflicts(queensList) ==
    LET set == UNION { {queensList[p[1]], queensList[p[2]]} : p \in AttackingPairs(queensList) }
    IN  [count |-> Cardinality(set), set |-> set]

(***************************************************************************)
(* Level target table                                                      *)
(***************************************************************************)
knownMaxQueens ==
    << 0, 1, 1, 4, 8, 12, 18, 24, 32, 42, 52, 64, 78, 94, 112, 132, 154 >>

getLevelTarget_RoundsUp(level) ==
    IF level < Len(knownMaxQueens)
    THEN knownMaxQueens[level + 1]
    ELSE (level * level + 1) \div 2

getLevelTarget(level) ==
    IF level < Len(knownMaxQueens)
    THEN knownMaxQueens[level + 1]     \* knownMaxQueens[level], 0-based in the source
    ELSE (level * level) \div 2

(***************************************************************************)
(* Layer slicing                                                           *)
(***************************************************************************)
Vec(x, y, z) == [x |-> x, y |-> y, z |-> z]

\* THREE.Vector3.crossVectors(a, b)
crossVectors(a, b) ==
    Vec(a.y * b.z - a.z * b.y, a.z * b.x - a.x * b.z, a.x * b.y - a.y * b.x)

\* The directions the camera is given: along each of the four horizontal
\* half-axes, and the initial one (cameraAngleX = PI/6, cameraAngleY = PI/4,
\* looking at the origin from above; there the two horizontal components of
\* the right vector are equal, and which one the rounding makes the greater is
\* covered by the horizontal directions).  animate() moves cameraAngleX a fifth
\* of the way to targetCameraAngleX each frame and the target is held within
\* [-PI/2, PI/2], so the camera never looks straight down or up and the
\* cross product with the up vector is never the zero vector.
InitialCamera == Vec(-1, -1, -1)
CameraDirs ==
    { Vec(0, 0, -1), Vec(0, 0, 1), Vec(1, 0, 0), Vec(-1, 0, 0), InitialCamera }

noHiddenLayers == [minX |-> 0, maxX |-> 0, minY |-> 0, maxY |-> 0, minZ |-> 0, maxZ |-> 0]

opposite == [up |-> "down", down |-> "up", left |-> "right", right |-> "left"]
Directions == { "up", "down", "left", "right" }

\* normalize() divides by the length, or by 1 when the length is 0: the signs
\* of the components and the order of their magnitudes, all that is read
\* below, are those of the vector before it is normalised.
getRelativeAxes_SignIgnored(cameraDirection) ==
    LET up == Vec(0, 1, 0)
        right == crossVectors(cameraDirection, up)
        trueUp == crossVectors(right, cameraDirection)
        rightAxis == IF Abs(right.x) > Abs(right.z) THEN "x" ELSE "z"
        upAxis == "y"
    IN  [ right |-> [axis |-> rightAxis, prop |-> "maxX"],
          left  |-> [axis |-> rightAxis, prop |-> "minX"],
          up    |-> [axis |-> upAxis, prop |-> IF Sign(trueUp[upAxis]) > 0 THEN "maxY" ELSE "minY"],
          down  |-> [axis |-> upAxis, prop |-> IF Sign(trueUp[upAxis]) < 0 THEN "maxY" ELSE "minY"] ]

getRelativeAxes(cameraDirection) ==
    LET up == Vec(0, 1, 0)
        right == crossVectors(cameraDirection, up)
        trueUp == crossVectors(right, cameraDirection)
        rightAxis == IF Abs(right.x) > Abs(right.z) THEN "x" ELSE "z"
        upAxis == "y"
    IN  [ right |-> [axis |-> rightAxis, prop |-> IF Sign(right[rightAxis]) > 0 THEN "maxX" ELSE "minX"],
          left  |-> [axis |-> rightAxis, prop |-> IF Sign(right[rightAxis]) < 0 THEN "maxX" ELSE "minX"],
          up    |-> [axis |-> upAxis, prop |-> IF Sign(trueUp[upAxis]) > 0 THEN "maxY" ELSE "minY"],
          down  |-> [axis |-> upAxis, prop |-> IF Sign(trueUp[upAxis]) < 0 THEN "maxY" ELSE "minY"] ]

\* changeLayer(axis), up to its call of updateLayerVisibility: the counters it leaves
changeLayer_NoClamp(hl, n, axis) ==
    LET h0 == IF axis = "reset" THEN noHiddenLayers ELSE hl
        maxAllowed == n - 1
        h1 == [h0 EXCEPT !.minX = Max(0, h0.minX),
                         !.maxX = Max(0, h0.maxX),
                         !.minY = Max(0, h0.minY),
                         !.maxY = Max(0, h0.maxY)]
        h2 == IF h1.minX + h1.maxX > maxAllowed
              THEN IF h1.minX + h1.maxX - maxAllowed = 1
                   THEN [h1 EXCEPT !.maxX = @ - 1]
                   ELSE [h1 EXCEPT !.minX = @ - 1]
              ELSE h1
        h3 == IF h2.minY + h2.maxY > maxAllowed
              THEN IF h2.minY + h2.maxY - maxAllowed = 1
                   THEN [h2 EXCEPT !.maxY = @ - 1]
                   ELSE [h2 EXCEPT !.minY = @ - 1]
              ELSE h2
    IN  h3

changeLayer_IgnoresReset(hl, n, axis) ==
    LET maxAllowed == n - 1
        h1 == [hl EXCEPT !.minX = Max(0, Min(hl.minX, maxAllowed)),
                         !.maxX = Max(0, Min(hl.maxX, maxAllowed)),
                         !.minY = Max(0, Min(hl.minY, maxAllowed)),
                         !.maxY = Max(0, Min(hl.maxY, maxAllowed))]
    IN  h1

changeLayer(hl, n, axis) ==
    LET h0 == IF axis = "reset" THEN noHiddenLayers ELSE hl
        maxAllowed == n - 1
        h1 == [h0 EXCEPT !.minX = Max(0, Min(h0.minX, maxAllowed)),
                         !.maxX = Max(0, Min(h0.maxX, maxAllowed)),
                         !.minY = Max(0, Min(h0.minY, maxAllowed)),
                         !.maxY = Max(0, Min(h0.maxY, maxAllowed))]
        h2 == IF h1.minX + h1.maxX > maxAllowed
              THEN IF h1.minX + h1.maxX - maxAllowed = 1
                   THEN [h1 EXCEPT !.maxX = @ - 1]
                   ELSE [h1 EXCEPT !.minX = @ - 1]
              ELSE h1
        h3 == IF h2.minY + h2.maxY > maxAllowed
              THEN IF h2.minY + h2.maxY - maxAllowed = 1
                   THEN [h2 EXCEPT !.maxY = @ - 1]
                   ELSE [h2 EXCEPT !.minY = @ - 1]
              ELSE h2
    IN  h3

\* changeRelativeLayer(direction), up to updateLayerVisibility: the counters it leaves
changeRelativeLayer_AlwaysIncrements(hl, n, cameraDirection, direction) ==
    LET axes == getRelativeAxes(cameraDirection)
        control == axes[direction]
    IN  changeLayer([hl EXCEPT ![control.prop] = @ + 1], n, "none")

changeRelativeLayer_NeverReveals(hl, n, cameraDirection, direction) ==
    LET axes == getRelativeAxes(cameraDirection)
        control == axes[direction]
        oppositeControl == axes[opposite[direction]]
        h == IF hl[oppositeControl.prop] > 0
             THEN hl
             ELSE [hl EXCEPT ![control.prop] = @ + 1]
    IN  changeLayer(h, n, "none")

changeRelativeLayer(hl, n, cameraDirection, direction) ==
    LET axes == getRelativeAxes(cameraDirection)
        control == axes[direction]
        oppositeControl == axes[opposite[direction]]
        h == IF hl[oppositeControl.prop] > 0
             THEN [hl EXCEPT ![oppositeControl.prop] = @ - 1]
             ELSE [hl EXCEPT ![control.prop] = @ + 1]
    IN  changeLayer(h, n, "none")

\* the test of updateLayerVisibility, for one userData
isVisible_MinExclusive(c, n, hl) ==
    /\ c.x > hl.minX /\ c.x < n - hl.maxX
    /\ c.y > hl.minY /\ c.y < n - hl.maxY
    /\ c.z > hl.minZ /\ c.z < n - hl.maxZ

isVisible(c, n, hl) ==
    /\ c.x >= hl.minX /\ c.x < n - hl.maxX
    /\ c.y >= hl.minY /\ c.y < n - hl.maxY
    /\ c.z >= hl.minZ /\ c.z < n - hl.maxZ

\* updateLayerVisibility(): the objects of `objs` it leaves visible
updateLayerVisibility(objs, n, hl) == { c \in objs : isVisible(c, n, hl) }

(***************************************************************************)
(* Board, display and progress                                             *)
(***************************************************************************)
\* the levels played: those of the bounds, and levels 4 and 5, which are
\* played from a prepared placement
Levels == 1..Max(Max(MaxLevel, SliceLevel), 5)

\* let bestScores = {}: no entry reads as 0 (bestScores[N] || 0)
noScores == [l \in Levels |-> 0]

\* let lastSession = { level: 1, board: null }
\* lastSession.board is null or the text JSON.stringify made
\* or, in a document this script did not write, a text JSON.parse rejects
nullText == [isNull |-> TRUE, parses |-> TRUE, text |-> << >>]
Text(t) == [isNull |-> FALSE, parses |-> TRUE, text |-> t]
malformedText == [isNull |-> FALSE, parses |-> FALSE, text |-> << >>]
noSession == [level |-> 1, board |-> nullText]

\* the initialBoard argument of startLevel: null by default, or an array
nullBoard == [isNull |-> TRUE, array |-> << >>]
Board(b) == [isNull |-> FALSE, array |-> b]

initializeBoard_ExtraLayer(n) ==
    [z \in 0..n |-> [y \in 0..(n-1) |-> [x \in 0..(n-1) |-> FALSE]]]

\* Array.from({length: N}, () => Array.from({length: N}, () => Array(N).fill(false)))
initializeBoard(n) ==
    [z \in 0..(n-1) |-> [y \in 0..(n-1) |-> [x \in 0..(n-1) |-> FALSE]]]

\* JSON.stringify(board): the text, as the nesting of its brackets (1-based tuples)
\* (an array is written from index 0 to its length; a property that is no
\* index, such as -1, is left out)
stringify(b) ==
    LET tuple(f) == [i \in 1..Cardinality({ k \in DOMAIN f : k >= 0 }) |-> f[i - 1]]
    IN  tuple([z \in DOMAIN b |-> tuple([y \in DOMAIN b[z] |-> tuple(b[z][y])])])

\* JSON.parse(text): the nested arrays (0-based)
parse(t) ==
    LET array(q) == [i \in 0..(Len(q) - 1) |-> q[i + 1]]
    IN  array([z \in DOMAIN t |-> array([y \in DOMAIN t[z] |-> array(t[z][y])])])

\* the userData of the i-th pass of for z, for y, for x (i from 0)
loopCell(n, i) == Cell(i % n, (i \div n) % n, i \div (n * n))

\* the queens updateDisplay creates: one per true board[z][y][x], in loop order
queensOf(b, n) ==
    SelectSeq([i \in 1..(n * n * n) |-> loopCell(n, i - 1)],
              LAMBDA c : b[c.z][c.y][c.x])

\* saveGameData(): the setDoc it issues (none without a signed-in user)
saveGameData(uid, scores, ls) ==
    IF uid = "none" THEN << >> ELSE << [scores |-> scores, lastSession |-> ls] >>

\* updateDisplay(): what it leaves, given the globals it reads
updateDisplay_NoUnlockReset(b, n, hl, cubeSet, best, unlock, uid, ls) ==
    LET qs == queensOf(b, n)
        conflicts == getConflicts(qs)
        record == conflicts.count = 0 /\ Len(qs) > best[n]
        best1 == IF record THEN [best EXCEPT ![n] = Len(qs)] ELSE best
        targetQueens == getLevelTarget(n)
        newUnlockStatus ==
            IF conflicts.count = 0 /\ Len(qs) >= targetQueens THEN "perfect" ELSE "none"
        message == IF Len(qs) > targetQueens THEN "New Record!" ELSE "Perfect!"
        done == newUnlockStatus # "none" \/ unlock # "none"
    IN  [ queens |-> qs,
          conflictSet |-> conflicts.set,
          conflictCount |-> conflicts.count,
          cubeVisible |-> updateLayerVisibility(cubeSet, n, hl),
          queenVisible |-> updateLayerVisibility({ qs[i] : i \in 1..Len(qs) }, n, hl),
          bestScores |-> best1,
          saves |-> IF record THEN saveGameData(uid, best1, ls) ELSE << >>,
          notified |-> IF newUnlockStatus # "none" /\ newUnlockStatus # unlock
                       THEN message ELSE "none",
          unlockStatus |-> IF done THEN "perfect" ELSE "none",
          nextLevelBtn |-> IF done THEN "enabled" ELSE "disabled",
          levelCompleted |-> done ]

updateDisplay_ScoreWithConflicts(b, n, hl, cubeSet, best, unlock, uid, ls) ==
    LET qs == queensOf(b, n)
        conflicts == getConflicts(qs)
        record == Len(qs) > best[n]
        best1 == IF record THEN [best EXCEPT ![n] = Len(qs)] ELSE best
        targetQueens == getLevelTarget(n)
        newUnlockStatus ==
            IF conflicts.count = 0 /\ Len(qs) >= targetQueens THEN "perfect" ELSE "none"
        message == IF Len(qs) > targetQueens THEN "New Record!" ELSE "Perfect!"
    IN  [ queens |-> qs,
          conflictSet |-> conflicts.set,
          conflictCount |-> conflicts.count,
          cubeVisible |-> updateLayerVisibility(cubeSet, n, hl),
          queenVisible |-> updateLayerVisibility({ qs[i] : i \in 1..Len(qs) }, n, hl),
          bestScores |-> best1,
          saves |-> IF record THEN saveGameData(uid, best1, ls) ELSE << >>,
          notified |-> IF newUnlockStatus # "none" /\ newUnlockStatus # unlock
                       THEN message ELSE "none",
          unlockStatus |-> newUnlockStatus,
          nextLevelBtn |-> IF newUnlockStatus # "none" THEN "enabled" ELSE "disabled",
          levelCompleted |-> newUnlockStatus # "none" ]

updateDisplay_AlwaysNotifies(b, n, hl, cubeSet, best, unlock, uid, ls) ==
    LET qs == queensOf(b, n)
        conflicts == getConflicts(qs)
        record == conflicts.count = 0 /\ Len(qs) > best[n]
        best1 == IF record THEN [best EXCEPT ![n] = Len(qs)] ELSE best
        targetQueens == getLevelTarget(n)
        newUnlockStatus ==
            IF conflicts.count = 0 /\ Len(qs) >= targetQueens THEN "perfect" ELSE "none"
        message == IF Len(qs) > targetQueens THEN "New Record!" ELSE "Perfect!"
    IN  [ queens |-> qs,
          conflictSet |-> conflicts.set,
          conflictCount |-> conflicts.count,
          cubeVisible |-> updateLayerVisibility(cubeSet, n, hl),
          queenVisible |-> updateLayerVisibility({ qs[i] : i \in 1..Len(qs) }, n, hl),
          bestScores |-> best1,
          saves |-> IF record THEN saveGameData(uid, best1, ls) ELSE << >>,
          notified |-> IF newUnlockStatus # "none" THEN message ELSE "none",
          unlockStatus |-> newUnlockStatus,
          nextLevelBtn |-> IF newUnlockStatus # "none" THEN "enabled" ELSE "disabled",
          levelCompleted |-> newUnlockStatus # "none" ]

updateDisplay(b, n, hl, cubeSet, best, unlock, uid, ls) ==
    LET qs == queensOf(b, n)
        conflicts == getConflicts(qs)
        record == conflicts.count = 0 /\ Len(qs) > best[n]
        best1 == IF record THEN [best EXCEPT ![n] = Len(qs)] ELSE best
        targetQueens == getLevelTarget(n)
        newUnlockStatus ==
            IF conflicts.count = 0 /\ Len(qs) >= targetQueens THEN "perfect" ELSE "none"
        message == IF Len(qs) > targetQueens THEN "New Record!" ELSE "Perfect!"
    IN  [ queens |-> qs,
          conflictSet |-> conflicts.set,
          conflictCount |-> conflicts.count,
          cubeVisible |-> updateLayerVisibility(cubeSet, n, hl),
          queenVisible |-> updateLayerVisibility({ qs[i] : i \in 1..Len(qs) }, n, hl),
          bestScores |-> best1,
          saves |-> IF record THEN saveGameData(uid, best1, ls) ELSE << >>,
          notified |-> IF newUnlockStatus # "none" /\ newUnlockStatus # unlock
                       THEN message ELSE "none",
          unlockStatus |-> newUnlockStatus,
          nextLevelBtn |-> IF newUnlockStatus # "none" THEN "enabled" ELSE "disabled",
          levelCompleted |-> newUnlockStatus # "none" ]

startLevel_IgnoresInitialBoard(level, initialBoard, best, uid, ls) ==
    LET b == initializeBoard(level)
        d == updateDisplay(b, level, noHiddenLayers, Cells(level), best, "none", uid, ls)
    IN  [ currentLevel |-> level, N |-> level, board |-> b,
          cubes |-> Cells(level), hiddenLayers |-> noHiddenLayers, display |-> d ]

\* startLevel(level, initialBoard): what it leaves.  createBoardGeometry()
\* rebuilds the cubes and zeroes hiddenLayers before updateDisplay() runs.
startLevel(level, initialBoard, best, uid, ls) ==
    LET b == IF ~initialBoard.isNull THEN initialBoard.array ELSE initializeBoard(level)
        d == updateDisplay(b, level, noHiddenLayers, Cells(level), best, "none", uid, ls)
    IN  [ currentLevel |-> level, N |-> level, board |-> b,
          cubes |-> Cells(level), hiddenLayers |-> noHiddenLayers, display |-> d ]

(***************************************************************************)
(* Handlers.  Each action is one handler run to completion; `top` and      *)
(* `cap` cut the level and the number of queens off at a bound.            *)
(***************************************************************************)
ApplyDisplay(d) ==
    /\ queens' = d.queens
    /\ conflictSet' = d.conflictSet
    /\ conflictCount' = d.conflictCount
    /\ cubeVisible' = d.cubeVisible
    /\ queenVisible' = d.queenVisible
    /\ bestScores' = d.bestScores
    /\ notified' = d.notified
    /\ unlockStatus' = d.unlockStatus
    /\ nextLevelBtn' = d.nextLevelBtn
    /\ levelCompleted' = d.levelCompleted

ApplyStartLevel_KeepsLayers(r) ==
    /\ currentLevel' = r.currentLevel
    /\ N' = r.N
    /\ board' = r.board
    /\ cubes' = r.cubes
    /\ hiddenLayers' = hiddenLayers
    /\ ApplyDisplay(r.display)
    /\ Len(saveQueue) + Len(r.display.saves) <= MaxSaves
    /\ saveQueue' = saveQueue \o r.display.saves

ApplyStartLevel(r) ==
    /\ currentLevel' = r.currentLevel
    /\ N' = r.N
    /\ board' = r.board
    /\ cubes' = r.cubes
    /\ hiddenLayers' = r.hiddenLayers
    /\ ApplyDisplay(r.display)
    /\ Len(saveQueue) + Len(r.display.saves) <= MaxSaves
    /\ saveQueue' = saveQueue \o r.display.saves

\* the handler that ran last, its argument, and what it found; for a right
\* request that follows a left request at once, the counters before the two
Op(name, arg, pre) ==
    [ op |-> name, arg |-> arg, pre |-> pre,
      left |-> IF /\ name = "changeRelativeLayer" /\ arg = "right"
                  /\ lastOp.op = "changeRelativeLayer" /\ lastOp.arg = "left"
               THEN [followed |-> TRUE, pre |-> lastOp.pre]
               ELSE [followed |-> FALSE, pre |-> noHiddenLayers] ]

\* what a handler that may call startLevel found: whether it did call it,
\* and whether any layer was hidden
Found(started) == [started |-> started, hidden |-> hiddenLayers # noHiddenLayers]

\* what toggleQueen found: the board and what was shown for it
Before ==
    [ levelCompleted |-> levelCompleted, board |-> board,
      conflictSet |-> conflictSet, conflictCount |-> conflictCount ]

\* board[z][y][x] = !board[z][y][x] for any integers x, y, z.  Outside the
\* array board[z] or board[z][y] is undefined, and reading a property of
\* undefined throws a TypeError; outside the row board[z][y][x] is undefined,
\* its negation is true, and the assignment adds the property x to the row.
flip(b, x, y, z) ==
    IF z \notin DOMAIN b \/ y \notin DOMAIN b[z]
    THEN [threw |-> TRUE, board |-> b]
    ELSE LET row == b[z][y]
             row1 == [i \in DOMAIN row \cup {x} |->
                        IF i # x THEN row[i]
                        ELSE IF x \in DOMAIN row THEN ~row[x] ELSE TRUE]
         IN  [threw |-> FALSE, board |-> [b EXCEPT ![z][y] = row1]]

ToggleQueen_NoRedraw(c, cap) ==
    /\ c \in cubeVisible
    /\ board[c.z][c.y][c.x] \/ Len(queens) < cap
    /\ LET b == [board EXCEPT ![c.z][c.y][c.x] = ~@]
           ls == [level |-> currentLevel, board |-> Text(stringify(b))]
           saves == saveGameData(userId, bestScores, ls)
       IN  /\ Len(saveQueue) + Len(saves) <= MaxSaves
           /\ board' = b
           /\ lastSession' = ls
           /\ saveQueue' = saveQueue \o saves
    /\ lastOp' = Op("toggleQueen", c, Before)
    /\ UNCHANGED << currentLevel, N, cubes, cubeVisible, queens, queenVisible,
                    conflictSet, conflictCount, levelCompleted, unlockStatus,
                    nextLevelBtn, notified, bestScores, hiddenLayers, camera, userId,
                    gameStarted, signIn, authUser, loadState, stored, session, call, ret,
                    isCreativeMode >>

\* handleCanvasClick -> toggleQueen(x, y, z): a click hits a visible cube
ToggleQueen(c, cap) ==
    /\ c \in cubeVisible
    /\ board[c.z][c.y][c.x] \/ Len(queens) < cap
    /\ LET b == [board EXCEPT ![c.z][c.y][c.x] = ~@]
           d == updateDisplay(b, N, hiddenLayers, cubes, bestScores, unlockStatus,
                              userId, lastSession)
           ls == [level |-> currentLevel, board |-> Text(stringify(b))]   \* saveCurrentState
           saves == d.saves \o saveGameData(userId, d.bestScores, ls)
       IN  /\ Len(saveQueue) + Len(saves) <= MaxSaves
           /\ board' = b
           /\ ApplyDisplay(d)
           /\ lastSession' = ls
           /\ saveQueue' = saveQueue \o saves
    /\ lastOp' = Op("toggleQueen", c, Before)
    /\ UNCHANGED << currentLevel, N, cubes, hiddenLayers, camera, userId, gameStarted,
                    signIn, authUser, loadState, stored, session, call, ret, isCreativeMode >>

ResetLevel_KeepsBoard ==
    /\ LET d == updateDisplay(board, N, hiddenLayers, cubes, bestScores, "none",
                              userId, lastSession)
       IN  /\ board' = board
           /\ ApplyDisplay(d)
    /\ lastOp' = Op("resetLevel", "none", levelCompleted)
    /\ UNCHANGED << currentLevel, N, cubes, hiddenLayers, camera, lastSession,
                    storeVars, call, ret, isCreativeMode >>

ResetLevel ==
    /\ LET b == initializeBoard(N)
           d == updateDisplay(b, N, hiddenLayers, cubes, bestScores, "none",
                              userId, lastSession)
       IN  /\ board' = b
           /\ ApplyDisplay(d)
    /\ lastOp' = Op("resetLevel", "none", levelCompleted)
    /\ UNCHANGED << currentLevel, N, cubes, hiddenLayers, camera, lastSession,
                    storeVars, call, ret, isCreativeMode >>

NextLevel_Unguarded(top) ==
    /\ lastOp' = Op("nextLevel", "none", Found(levelCompleted))
    /\ currentLevel + 1 <= top
    /\ ApplyStartLevel(startLevel(currentLevel + 1, nullBoard, bestScores,
                                   userId, lastSession))
    /\ UNCHANGED << camera, lastSession, userId, gameStarted, signIn, authUser,
                    loadState, stored, session, call, ret, isCreativeMode >>

NextLevel(top) ==
    /\ lastOp' = Op("nextLevel", "none", Found(levelCompleted))
    /\ IF ~levelCompleted
       THEN UNCHANGED << gameVars, bestScores, saveQueue >>
       ELSE /\ currentLevel + 1 <= top
            /\ ApplyStartLevel(startLevel(currentLevel + 1, nullBoard, bestScores,
                                           userId, lastSession))
    /\ UNCHANGED << camera, lastSession, userId, gameStarted, signIn, authUser,
                    loadState, stored, session, call, ret, isCreativeMode >>

NavigateLevel(direction, top) ==
    /\ lastOp' = Op("navigateLevel", direction, Found(currentLevel + direction > 0))
    /\ LET newLevel == currentLevel + direction
       IN  IF newLevel > 0
           THEN /\ newLevel <= top
                /\ ApplyStartLevel(startLevel(newLevel, nullBoard, bestScores,
                                               userId, lastSession))
           ELSE UNCHANGED << gameVars, bestScores, saveQueue >>
    /\ UNCHANGED << camera, lastSession, userId, gameStarted, signIn, authUser,
                    loadState, stored, session, call, ret, isCreativeMode >>

\* the change listener of levelInput
LevelInput(level) ==
    /\ lastOp' = Op("levelInput", level, Found(level > 0))
    /\ IF level > 0
       THEN ApplyStartLevel(startLevel(level, nullBoard, bestScores, userId, lastSession))
       ELSE UNCHANGED << gameVars, bestScores, saveQueue >>
    /\ UNCHANGED << camera, lastSession, userId, gameStarted, signIn, authUser,
                    loadState, stored, session, call, ret, isCreativeMode >>

\* JSON.parse throws a SyntaxError on a text it rejects: startLevel is not
\* reached and the error leaves the handler
RestoreLastSession ==
    /\ IF lastSession.board.isNull
       THEN /\ lastOp' = Op("restoreLastSession", "none", Found(FALSE))
            /\ UNCHANGED << gameVars, bestScores, saveQueue >>
       ELSE IF ~lastSession.board.parses
       THEN /\ lastOp' = Op("restoreLastSession", "SyntaxError", Found(FALSE))
            /\ UNCHANGED << gameVars, bestScores, saveQueue >>
       ELSE /\ lastOp' = Op("restoreLastSession", "none", Found(TRUE))
            /\ ApplyStartLevel(startLevel(lastSession.level,
                                           Board(parse(lastSession.board.text)),
                                           bestScores, userId, lastSession))
    /\ UNCHANGED << camera, lastSession, userId, gameStarted, signIn, authUser,
                    loadState, stored, session, call, ret, isCreativeMode >>

ChangeRelativeLayer_DropsHidden(direction) ==
    /\ hiddenLayers' = changeRelativeLayer(hiddenLayers, N, camera, direction)
    /\ cubeVisible' = updateLayerVisibility(cubes, N, hiddenLayers')
    /\ queens' = SelectSeq(queens, LAMBDA q : isVisible(q, N, hiddenLayers'))
    /\ queenVisible' = { queens'[i] : i \in 1..Len(queens') }
    /\ lastOp' = Op("changeRelativeLayer", direction, hiddenLayers)
    /\ UNCHANGED << currentLevel, N, board, cubes, conflictSet, conflictCount,
                    levelCompleted, unlockStatus, nextLevelBtn, notified, camera,
                    bestScores, lastSession, storeVars, call, ret, isCreativeMode >>

ChangeRelativeLayer(direction) ==
    /\ hiddenLayers' = changeRelativeLayer(hiddenLayers, N, camera, direction)
    /\ cubeVisible' = updateLayerVisibility(cubes, N, hiddenLayers')
    /\ queenVisible' = updateLayerVisibility({ queens[i] : i \in 1..Len(queens) }, N, hiddenLayers')
    /\ lastOp' = Op("changeRelativeLayer", direction, hiddenLayers)
    /\ UNCHANGED << currentLevel, N, board, cubes, queens, conflictSet, conflictCount,
                    levelCompleted, unlockStatus, nextLevelBtn, notified, camera,
                    bestScores, lastSession, storeVars, call, ret, isCreativeMode >>

\* changeLayer("reset")
ChangeLayerReset ==
    /\ hiddenLayers' = changeLayer(hiddenLayers, N, "reset")
    /\ cubeVisible' = updateLayerVisibility(cubes, N, hiddenLayers')
    /\ queenVisible' = updateLayerVisibility({ queens[i] : i \in 1..Len(queens) }, N, hiddenLayers')
    /\ lastOp' = Op("changeLayer", "reset", hiddenLayers)
    /\ UNCHANGED << currentLevel, N, board, cubes, queens, conflictSet, conflictCount,
                    levelCompleted, unlockStatus, nextLevelBtn, notified, camera,
                    bestScores, lastSession, storeVars, call, ret, isCreativeMode >>

\* a drag: onMouseMove / onTouchMove turn the camera about the origin
RotateCamera(v) ==
    /\ v # camera
    /\ camera' = v
    /\ lastOp' = Op("rotate", "none", "none")
    /\ UNCHANGED << gameVars, bestScores, lastSession, storeVars, call, ret, isCreativeMode >>

(***************************************************************************)
(* The earlier variant of the script (lines 1-571), which has the creative *)
(* mode and neither unlockStatus nor the last session.  It is played       *)
(* offline: saveBestScores returns at its first statement.                 *)
(***************************************************************************)
updateDisplayEarly_NoCreativeReturn(b, n, hl, cubeSet, best, completed, btn, creative) ==
    LET qs == queensOf(b, n)
        conflicts == getConflicts(qs)
        record == conflicts.count = 0 /\ Len(qs) > best[n]
        targetQueens == getLevelTarget(n)
        reached == conflicts.count = 0 /\ Len(qs) >= targetQueens
        message == IF Len(qs) > targetQueens THEN "New Record!" ELSE "Perfect!"
    IN  [ queens |-> qs,
          conflictSet |-> conflicts.set,
          conflictCount |-> conflicts.count,
          cubeVisible |-> updateLayerVisibility(cubeSet, n, hl),
          queenVisible |-> updateLayerVisibility({ qs[i] : i \in 1..Len(qs) }, n, hl),
          bestScores |-> IF record THEN [best EXCEPT ![n] = Len(qs)] ELSE best,
          saves |-> << >>,
          notified |-> IF reached /\ ~completed THEN message ELSE "none",
          unlockStatus |-> "none",
          nextLevelBtn |-> IF reached /\ ~completed THEN "enabled"
                           ELSE IF completed /\ ~reached THEN "disabled" ELSE btn,
          levelCompleted |-> reached ]

\* updateDisplay() of the earlier variant: it returns before the score and
\* completion block when isCreativeMode is set; otherwise the block sets
\* levelCompleted when the target is first reached and clears it when lost
updateDisplayEarly(b, n, hl, cubeSet, best, completed, btn, creative) ==
    LET qs == queensOf(b, n)
        conflicts == getConflicts(qs)
        record == ~creative /\ conflicts.count = 0 /\ Len(qs) > best[n]
        targetQueens == getLevelTarget(n)
        reached == conflicts.count = 0 /\ Len(qs) >= targetQueens
        message == IF Len(qs) > targetQueens THEN "New Record!" ELSE "Perfect!"
    IN  [ queens |-> qs,
          conflictSet |-> conflicts.set,
          conflictCount |-> conflicts.count,
          cubeVisible |-> updateLayerVisibility(cubeSet, n, hl),
          queenVisible |-> updateLayerVisibility({ qs[i] : i \in 1..Len(qs) }, n, hl),
          bestScores |-> IF record THEN [best EXCEPT ![n] = Len(qs)] ELSE best,
          saves |-> << >>,
          notified |-> IF ~creative /\ reached /\ ~completed THEN message ELSE "none",
          unlockStatus |-> "none",
          nextLevelBtn |-> IF creative THEN btn
                           ELSE IF reached /\ ~completed THEN "enabled"
                           ELSE IF completed /\ ~reached THEN "disabled" ELSE btn,
          levelCompleted |-> IF creative THEN completed
                             ELSE IF reached /\ ~completed THEN TRUE
                             ELSE IF completed /\ ~reached THEN FALSE ELSE completed ]

\* startLevel(level) of the earlier variant
startLevelEarly(level, best, creative) ==
    LET b == initializeBoard(level)
        d == updateDisplayEarly(b, level, noHiddenLayers, Cells(level), best, FALSE,
                                "disabled", creative)
    IN  [ currentLevel |-> level, N |-> level, board |-> b,
          cubes |-> Cells(level), hiddenLayers |-> noHiddenLayers, display |-> d ]

ToggleQueenEarly(c, cap) ==
    /\ c \in cubeVisible
    /\ board[c.z][c.y][c.x] \/ Len(queens) < cap
    /\ LET b == [board EXCEPT ![c.z][c.y][c.x] = ~@]
           d == updateDisplayEarly(b, N, hiddenLayers, cubes, bestScores, levelCompleted,
                                   nextLevelBtn, isCreativeMode)
       IN  /\ board' = b
           /\ ApplyDisplay(d)
    /\ lastOp' = Op("toggleQueen", c, Before)
    /\ UNCHANGED << currentLevel, N, cubes, hiddenLayers, camera, lastSession,
                    storeVars, call, ret, isCreativeMode >>

ResetLevelEarly ==
    /\ LET b == initializeBoard(N)
           d == updateDisplayEarly(b, N, hiddenLayers, cubes, bestScores, FALSE,
                                   "disabled", isCreativeMode)
       IN  /\ board' = b
           /\ ApplyDisplay(d)
    /\ lastOp' = Op("resetLevel", "none", levelCompleted)
    /\ UNCHANGED << currentLevel, N, cubes, hiddenLayers, camera, lastSession,
                    storeVars, call, ret, isCreativeMode >>

NextLevelEarly(top) ==
    /\ lastOp' = Op("nextLevel", "none", Found(levelCompleted))
    /\ IF ~levelCompleted
       THEN UNCHANGED << gameVars, bestScores, saveQueue >>
       ELSE /\ currentLevel + 1 <= top
            /\ ApplyStartLevel(startLevelEarly(currentLevel + 1, bestScores, isCreativeMode))
    /\ UNCHANGED << camera, lastSession, userId, gameStarted, signIn, authUser,
                    loadState, stored, session, call, ret, isCreativeMode >>

NavigateLevelEarly(direction, top) ==
    /\ lastOp' = Op("navigateLevel", direction, Found(currentLevel + direction > 0))
    /\ LET newLevel == currentLevel + direction
       IN  IF newLevel > 0
           THEN /\ newLevel <= top
                /\ ApplyStartLevel(startLevelEarly(newLevel, bestScores, isCreativeMode))
           ELSE UNCHANGED << gameVars, bestScores, saveQueue >>
    /\ UNCHANGED << camera, lastSession, userId, gameStarted, signIn, authUser,
                    loadState, stored, session, call, ret, isCreativeMode >>

LevelInputEarly(level) ==
    /\ lastOp' = Op("levelInput", level, Found(level > 0))
    /\ IF level > 0
       THEN ApplyStartLevel(startLevelEarly(level, bestScores, isCreativeMode))
       ELSE UNCHANGED << gameVars, bestScores, saveQueue >>
    /\ UNCHANGED << camera, lastSession, userId, gameStarted, signIn, authUser,
                    loadState, stored, session, call, ret, isCreativeMode >>

\* the creative-mode button, or the key C
toggleCreativeMode ==
    /\ isCreativeMode' = ~isCreativeMode
    /\ ApplyStartLevel(startLevelEarly(currentLevel, bestScores, ~isCreativeMode))
    /\ lastOp' = Op("toggleCreativeMode", "none", levelCompleted)
    /\ UNCHANGED << camera, lastSession, userId, gameStarted, signIn, authUser,
                    loadState, stored, session, call, ret >>

(***************************************************************************)
(* Startup and persistence.  Every await splits its function in two: the   *)
(* part up to the await, and the continuation the settled promise runs.    *)
(***************************************************************************)
\* signIn...() resolves: Firebase Auth now holds a user
SignInResolved ==
    /\ signIn = "pending"
    /\ signIn' = "ok"
    /\ authUser' = "u1"
    /\ lastOp' = Op("signInResolved", "none", "none")
    /\ UNCHANGED << gameVars, camera, bestScores, lastSession, userId, gameStarted,
                    loadState, saveQueue, stored, session, call, ret, isCreativeMode >>

\* signIn...() rejects: the catch block of initializeFirebase runs startLevel(1)
SignInRejected ==
    /\ signIn = "pending"
    /\ signIn' = "failed"
    /\ ApplyStartLevel(startLevel(1, nullBoard, bestScores, userId, lastSession))
    /\ lastOp' = Op("signInRejected", "none", "none")
    /\ UNCHANGED << camera, lastSession, userId, gameStarted, authUser, loadState,
                    stored, session, call, ret, isCreativeMode >>

\* the onAuthStateChanged callback, called with a user, up to await loadGameData()
AuthStateChanged ==
    /\ authUser # "none"
    /\ ~gameStarted
    /\ gameStarted' = TRUE
    /\ userId' = authUser
    /\ loadState' = "pending"           \* getDoc is issued: userId and db are set
    /\ lastOp' = Op("authStateChanged", "none", "none")
    /\ UNCHANGED << gameVars, camera, bestScores, lastSession, signIn, authUser,
                    saveQueue, stored, session, call, ret, isCreativeMode >>

\* getDoc resolves: the rest of loadGameData, then startLevel(1)
LoadResolved ==
    /\ loadState = "pending"
    /\ loadState' = "done"
    /\ LET scores == IF stored.exists THEN stored.scores ELSE bestScores
           ls == IF stored.exists THEN stored.lastSession ELSE lastSession
       IN  /\ lastSession' = ls
           /\ ApplyStartLevel(startLevel(1, nullBoard, scores, userId, ls))
    /\ lastOp' = Op("loadResolved", "none", "none")
    /\ UNCHANGED << camera, userId, gameStarted, signIn, authUser, stored, session,
                    call, ret, isCreativeMode >>

LoadRejected_NoStart ==
    /\ loadState = "pending"
    /\ loadState' = "done"
    /\ lastOp' = Op("loadRejected", "none", "none")
    /\ UNCHANGED << gameVars, bestScores, saveQueue, camera, lastSession, userId,
                    gameStarted, signIn, authUser, stored, session, call, ret, isCreativeMode >>

\* getDoc rejects: the catch of loadGameData logs, then startLevel(1)
LoadRejected ==
    /\ loadState = "pending"
    /\ loadState' = "done"
    /\ ApplyStartLevel(startLevel(1, nullBoard, bestScores, userId, lastSession))
    /\ lastOp' = Op("loadRejected", "none", "none")
    /\ UNCHANGED << camera, lastSession, userId, gameStarted, signIn, authUser,
                    stored, session, call, ret, isCreativeMode >>

\* the oldest setDoc resolves: the document is what that call was given
SaveResolved ==
    /\ saveQueue # << >>
    /\ stored' = [exists |-> TRUE, scores |-> Head(saveQueue).scores,
                   lastSession |-> Head(saveQueue).lastSession]
    /\ saveQueue' = Tail(saveQueue)
    /\ lastOp' = Op("saveResolved", "none", "none")
    /\ UNCHANGED << gameVars, camera, bestScores, lastSession, userId, gameStarted,
                    signIn, authUser, loadState, session, call, ret, isCreativeMode >>

\* the oldest setDoc rejects: the catch of saveGameData logs
SaveRejected ==
    /\ saveQueue # << >>
    /\ saveQueue' = Tail(saveQueue)
    /\ lastOp' = Op("saveRejected", "none", "none")
    /\ UNCHANGED << gameVars, camera, bestScores, lastSession, userId, gameStarted,
                    signIn, authUser, loadState, stored, session, call, ret, isCreativeMode >>

\* the page is loaded again and the start button clicked: the globals are
\* declared afresh; the document and the user Firebase Auth holds remain
PageLoad ==
    /\ session < MaxSessions
    /\ saveQueue = << >>
    /\ loadState # "pending"
    /\ session' = session + 1
    /\ currentLevel' = 1
    /\ N' = 1
    /\ board' = << >>
    /\ cubes' = {}
    /\ cubeVisible' = {}
    /\ queens' = << >>
    /\ queenVisible' = {}
    /\ conflictSet' = {}
    /\ conflictCount' = 0
    /\ levelCompleted' = FALSE
    /\ unlockStatus' = "none"
    /\ nextLevelBtn' = "disabled"
    /\ notified' = "none"
    /\ hiddenLayers' = noHiddenLayers
    /\ camera' = InitialCamera
    /\ bestScores' = noScores
    /\ lastSession' = noSession
    /\ userId' = "none"
    /\ gameStarted' = FALSE
    /\ signIn' = "pending"
    /\ loadState' = "idle"
    /\ lastOp' = Op("init", "none", "none")
    /\ isCreativeMode' = FALSE
    /\ UNCHANGED << saveQueue, authUser, stored, call, ret >>

(***************************************************************************)
(* Initial states                                                          *)
(***************************************************************************)
\* no direct call of a function is under way
noCall == [fn |-> "none", args |-> << >>]
noReturn == [done |-> FALSE, value |-> "none"]

noDocument == [exists |-> FALSE, scores |-> noScores, lastSession |-> noSession]

\* the globals as the script declares them, init() called, nothing resolved yet
PageGlobals ==
    /\ currentLevel = 1
    /\ N = 1
    /\ board = << >>
    /\ cubes = {}
    /\ cubeVisible = {}
    /\ queens = << >>
    /\ queenVisible = {}
    /\ conflictSet = {}
    /\ conflictCount = 0
    /\ levelCompleted = FALSE
    /\ unlockStatus = "none"
    /\ nextLevelBtn = "disabled"
    /\ notified = "none"
    /\ hiddenLayers = noHiddenLayers
    /\ camera = InitialCamera
    /\ bestScores = noScores
    /\ lastSession = noSession
    /\ userId = "none"
    /\ gameStarted = FALSE
    /\ signIn = "pending"
    /\ loadState = "idle"
    /\ saveQueue = << >>

Init ==
    /\ PageGlobals
    /\ authUser = "none"
    /\ stored = noDocument
    /\ session = 1
    /\ lastOp = Op("init", "none", "none")
    /\ call = noCall
    /\ ret = noReturn
    /\ isCreativeMode = FALSE

\* The page once sign-in has failed with no user: the catch block of
\* initializeFirebase has run startLevel(1), and every save and load returns
\* at once (userId is not set).
OfflineGlobals ==
    LET r == startLevel(1, nullBoard, noScores, "none", noSession)
    IN  /\ currentLevel = r.currentLevel
        /\ N = r.N
        /\ board = r.board
        /\ cubes = r.cubes
        /\ hiddenLayers = r.hiddenLayers
        /\ queens = r.display.queens
        /\ conflictSet = r.display.conflictSet
        /\ conflictCount = r.display.conflictCount
        /\ cubeVisible = r.display.cubeVisible
        /\ queenVisible = r.display.queenVisible
        /\ bestScores = r.display.bestScores
        /\ notified = r.display.notified
        /\ unlockStatus = r.display.unlockStatus
        /\ nextLevelBtn = r.display.nextLevelBtn
        /\ levelCompleted = r.display.levelCompleted
        /\ camera = InitialCamera
        /\ lastSession = noSession
        /\ userId = "none"
        /\ gameStarted = FALSE
        /\ signIn = "failed"
        /\ loadState = "idle"
        /\ saveQueue = << >>
        /\ authUser = "none"
        /\ stored = noDocument
        /\ session = 1
        /\ lastOp = Op("signInRejected", "none", "none")

OfflineInit ==
    /\ OfflineGlobals
    /\ call = noCall
    /\ ret = noReturn
    /\ isCreativeMode = FALSE

\* two opposite corners of the lattice: the cells clicked where the board
\* is not what is explored
CornerCells(n) == { Cell(0, 0, 0), Cell(n - 1, n - 1, n - 1) }

(***************************************************************************)
(* The layer slicing, played offline on levels 1..SliceLevel               *)
(***************************************************************************)
SliceNext ==
    \/ \E direction \in Directions : ChangeRelativeLayer(direction)
    \/ ChangeLayerReset
    \/ \E v \in CameraDirs : RotateCamera(v)
    \/ \E c \in CornerCells(N) : ToggleQueen(c, SliceQueens)
    \/ ResetLevel
    \/ NextLevel(SliceLevel)
    \/ \E direction \in {-1, 1} : NavigateLevel(direction, SliceLevel)
    \/ \E level \in 0..SliceLevel : LevelInput(level)
    \/ RestoreLastSession

SpecSlice == OfflineInit /\ [][SliceNext]_vars

(***************************************************************************)
(* Layers hidden over queens that attack each other: the two corners of    *)
(* the lattice lie on one space diagonal                                   *)
(***************************************************************************)
HiddenNext ==
    \/ \E direction \in Directions : ChangeRelativeLayer(direction)
    \/ ChangeLayerReset
    \/ \E v \in CameraDirs : RotateCamera(v)
    \/ \E c \in CornerCells(N) : ToggleQueen(c, MaxQueens)
    \/ NextLevel(MaxLevel)

SpecHidden == OfflineInit /\ [][HiddenNext]_vars

(***************************************************************************)
(* The whole program                                                       *)
(***************************************************************************)
Next ==
    \/ SignInResolved
    \/ SignInRejected
    \/ AuthStateChanged
    \/ LoadResolved
    \/ LoadRejected
    \/ SaveResolved
    \/ SaveRejected
    \/ PageLoad
    \/ \E c \in Cells(MaxLevel) : ToggleQueen(c, MaxQueens)
    \/ ResetLevel
    \/ NextLevel(MaxLevel)
    \/ \E direction \in {-1, 1} : NavigateLevel(direction, MaxLevel)
    \/ \E level \in 0..MaxLevel : LevelInput(level)
    \/ RestoreLastSession
    \/ \E direction \in Directions : ChangeRelativeLayer(direction)
    \/ ChangeLayerReset
    \/ \E v \in CameraDirs : RotateCamera(v)

Spec == Init /\ [][Next]_vars

(***************************************************************************)
(* Startup and the store, with the first cell the only one clicked and     *)
(* the layers left alone                                                   *)
(***************************************************************************)
StoreNext ==
    \/ SignInResolved
    \/ SignInRejected
    \/ AuthStateChanged
    \/ LoadResolved
    \/ LoadRejected
    \/ SaveResolved
    \/ SaveRejected
    \/ PageLoad
    \/ ToggleQueen(Cell(0, 0, 0), StoreQueens)
    \/ ResetLevel
    \/ NextLevel(MaxLevel)
    \/ \E direction \in {-1, 1} : NavigateLevel(direction, MaxLevel)
    \/ \E level \in 0..MaxLevel : LevelInput(level)
    \/ RestoreLastSession

SpecStore == Init /\ [][StoreNext]_vars

(***************************************************************************)
(* One page load, with every way sign-in, the load and the saves may end   *)
(***************************************************************************)
FailNext ==
    \/ SignInResolved
    \/ SignInRejected
    \/ AuthStateChanged
    \/ LoadResolved
    \/ LoadRejected
    \/ SaveResolved
    \/ SaveRejected
    \/ ToggleQueen(Cell(0, 0, 0), StoreQueens)
    \/ ResetLevel
    \/ NextLevel(MaxLevel)
    \/ \E level \in 1..MaxLevel : LevelInput(level)

SpecFail == Init /\ [][FailNext]_vars

(***************************************************************************)
(* One page load with the load and the saves in flight while two opposite  *)
(* corners of the board are clicked                                        *)
(***************************************************************************)
AsyncNext ==
    \/ SignInResolved
    \/ SignInRejected
    \/ AuthStateChanged
    \/ LoadResolved
    \/ LoadRejected
    \/ SaveResolved
    \/ SaveRejected
    \/ \E c \in CornerCells(N) : ToggleQueen(c, MaxQueens)
    \/ ResetLevel
    \/ NextLevel(MaxLevel)
    \/ \E level \in 1..MaxLevel : LevelInput(level)
    \/ RestoreLastSession

SpecAsync == Init /\ [][AsyncNext]_vars

(***************************************************************************)
(* The game played offline on levels 1..MaxLevel, the layers left alone    *)
(***************************************************************************)
PlayNext ==
    \/ \E c \in Cells(MaxLevel) : ToggleQueen(c, MaxQueens)
    \/ ResetLevel
    \/ NextLevel(MaxLevel)
    \/ \E direction \in {-1, 1} : NavigateLevel(direction, MaxLevel)
    \/ \E level \in 0..MaxLevel : LevelInput(level)
    \/ RestoreLastSession

SpecPlay == OfflineInit /\ [][PlayNext]_vars

(***************************************************************************)
(* The earlier variant played offline on levels 1..MaxLevel                *)
(***************************************************************************)
CreativeNext ==
    \/ \E c \in Cells(MaxLevel) : ToggleQueenEarly(c, MaxQueens)
    \/ ResetLevelEarly
    \/ NextLevelEarly(MaxLevel)
    \/ \E direction \in {-1, 1} : NavigateLevelEarly(direction, MaxLevel)
    \/ \E level \in 0..MaxLevel : LevelInputEarly(level)
    \/ toggleCreativeMode

SpecCreative == OfflineInit /\ [][CreativeNext]_vars

(***************************************************************************)
(* The functions called directly, one call per behaviour                   *)
(***************************************************************************)
Return(v) == [done |-> TRUE, value |-> v]

CallIsQueenAttacking ==
    /\ call.fn = "isQueenAttacking"
    /\ ~ret.done
    /\ ret' = Return(isQueenAttacking(call.args[1].x, call.args[1].y, call.args[1].z,
                                       call.args[2].x, call.args[2].y, call.args[2].z))
    /\ UNCHANGED << gameVars, camera, bestScores, lastSession, storeVars, lastOp, call,
                    isCreativeMode >>

AttackInit ==
    /\ OfflineGlobals
    /\ call \in { [fn |-> "isQueenAttacking", args |-> << a, b >>] :
                     a \in Cells(AttackSide), b \in Cells(AttackSide) }
    /\ ret = noReturn
    /\ isCreativeMode = FALSE

SpecAttack == AttackInit /\ [][CallIsQueenAttacking]_vars

CallGetLevelTarget ==
    /\ call.fn = "getLevelTarget"
    /\ ~ret.done
    /\ ret' = Return(getLevelTarget(call.args[1]))
    /\ UNCHANGED << gameVars, camera, bestScores, lastSession, storeVars, lastOp, call,
                    isCreativeMode >>

TargetInit ==
    /\ OfflineGlobals
    /\ call \in { [fn |-> "getLevelTarget", args |-> << level >>] : level \in 0..MaxArg }
    /\ ret = noReturn
    /\ isCreativeMode = FALSE

SpecTarget == TargetInit /\ [][CallGetLevelTarget]_vars

CallGetConflicts ==
    /\ call.fn = "getConflicts"
    /\ ~ret.done
    /\ ret' = Return(getConflicts(call.args[1]))
    /\ UNCHANGED << gameVars, camera, bestScores, lastSession, storeVars, lastOp, call,
                    isCreativeMode >>

\* the subsets of S of at most k elements
RECURSIVE SubsetsUpTo(_, _)
SubsetsUpTo(S, k) ==
    IF k = 0 THEN { {} }
    ELSE LET P == SubsetsUpTo(S, k - 1)
         IN  P \cup { T \cup {x} : T \in P, x \in S }

\* the board that holds queens on the cells of S and nowhere else
boardOf(S, n) ==
    [z \in 0..(n-1) |-> [y \in 0..(n-1) |-> [x \in 0..(n-1) |-> Cell(x, y, z) \in S]]]

\* the lists updateDisplay builds: distinct cells, in loop order
QueenLists(n, len) ==
    { queensOf(boardOf(S, n), n) : S \in SubsetsUpTo(Cells(n), len) }

ConflictsInit ==
    /\ OfflineGlobals
    /\ call \in { [fn |-> "getConflicts", args |-> << qs >>] :
                     qs \in QueenLists(ConflictSide, MaxList) }
    /\ ret = noReturn
    /\ isCreativeMode = FALSE

SpecConflicts == ConflictsInit /\ [][CallGetConflicts]_vars

\* toggleQueen(x, y, z) called with integers from -1 to N: when the first
\* statement throws, updateDisplay and saveCurrentState are not reached
CallToggleQueen ==
    /\ call.fn = "toggleQueen"
    /\ ~ret.done
    /\ \A i \in 1..3 : call.args[i] <= N
    /\ LET r == flip(board, call.args[1], call.args[2], call.args[3])
           d == updateDisplay(r.board, N, hiddenLayers, cubes, bestScores, unlockStatus,
                              userId, lastSession)
           ls == [level |-> currentLevel, board |-> Text(stringify(r.board))]
       IN  IF r.threw
           THEN /\ ret' = Return("TypeError")
                /\ UNCHANGED << gameVars, bestScores, lastSession >>
           ELSE /\ ret' = Return("undefined")
                /\ board' = r.board
                /\ ApplyDisplay(d)
                /\ lastSession' = ls
                /\ UNCHANGED << currentLevel, N, cubes, hiddenLayers >>
    /\ UNCHANGED << camera, storeVars, lastOp, call, isCreativeMode >>

ToggleInit ==
    /\ OfflineGlobals
    /\ call \in { [fn |-> "toggleQueen", args |-> << x, y, z >>] :
                    x \in -1..MaxLevel, y \in -1..MaxLevel, z \in -1..MaxLevel }
    /\ ret = noReturn
    /\ isCreativeMode = FALSE

ToggleNext ==
    \/ CallToggleQueen
    \/ \E level \in 1..MaxLevel : LevelInput(level)

SpecToggle == ToggleInit /\ [][ToggleNext]_vars

(***************************************************************************)
(* Startup on a document whose lastSession.board is no JSON text           *)
(***************************************************************************)
CorruptDocuments ==
    { [exists |-> TRUE, scores |-> noScores,
       lastSession |-> [level |-> level, board |-> malformedText]] :
        level \in 1..MaxLevel }

RestoreInit ==
    /\ PageGlobals
    /\ authUser = "none"
    /\ stored \in CorruptDocuments
    /\ session = 1
    /\ lastOp = Op("init", "none", "none")
    /\ call = noCall
    /\ ret = noReturn
    /\ isCreativeMode = FALSE

RestoreNext ==
    \/ SignInResolved
    \/ SignInRejected
    \/ AuthStateChanged
    \/ LoadResolved
    \/ LoadRejected
    \/ RestoreLastSession
    \/ \E direction \in {-1, 1} : NavigateLevel(direction, MaxLevel)
    \/ \E level \in 0..MaxLevel : LevelInput(level)

SpecRestore == RestoreInit /\ [][RestoreNext]_vars

(***************************************************************************)
(* Levels 4 and 5, played offline from a placement that lacks SolveOpen    *)
(* queens of a largest one: the clicks are on the cells still open, on one *)
(* queen already placed and on one cell outside the placement.             *)
(***************************************************************************)
\* a largest set of mutually non-attacking cells of the 4 x 4 x 4 and of the
\* 5 x 5 x 5 board (7 and 13 cells)
Placement(n) ==
    IF n = 4
    THEN { Cell(0, 1, 3), Cell(0, 3, 0), Cell(1, 3, 3), Cell(2, 0, 3), Cell(2, 2, 0),
           Cell(3, 0, 1), Cell(3, 2, 2) }
    ELSE { Cell(0, 0, 4), Cell(0, 2, 1), Cell(0, 4, 2), Cell(1, 0, 2), Cell(1, 3, 4),
           Cell(1, 4, 0), Cell(2, 0, 0), Cell(2, 3, 2), Cell(3, 3, 0), Cell(3, 4, 4),
           Cell(4, 0, 3), Cell(4, 1, 1), Cell(4, 2, 4) }

\* the queens placed so far: all of the placement but the last SolveOpen in loop order
Prepared(n) ==
    LET idx(c) == (c.z * n + c.y) * n + c.x
    IN  { c \in Placement(n) :
            Cardinality({ d \in Placement(n) : idx(d) > idx(c) }) >= SolveOpen }

\* the cells clicked
SolveCells(n) ==
    (Placement(n) \ Prepared(n))
        \cup { CHOOSE c \in Prepared(n) : TRUE }
        \cup { CHOOSE c \in Cells(n) \ Placement(n) : TRUE }

\* the state after the level was entered through levelInput and the queens of
\* Prepared(n) were clicked in, each click raising the best score by one
SolveInit ==
    \E n \in {4, 5} :
        LET b == boardOf(Prepared(n), n)
            r == startLevel(n, Board(b), noScores, "none", noSession)
            last == CHOOSE c \in Prepared(n) : r.display.queens[Len(r.display.queens)] = c
        IN  /\ currentLevel = r.currentLevel
            /\ N = r.N
            /\ board = r.board
            /\ cubes = r.cubes
            /\ hiddenLayers = r.hiddenLayers
            /\ queens = r.display.queens
            /\ conflictSet = r.display.conflictSet
            /\ conflictCount = r.display.conflictCount
            /\ cubeVisible = r.display.cubeVisible
            /\ queenVisible = r.display.queenVisible
            /\ bestScores = r.display.bestScores
            /\ notified = r.display.notified
            /\ unlockStatus = r.display.unlockStatus
            /\ nextLevelBtn = r.display.nextLevelBtn
            /\ levelCompleted = r.display.levelCompleted
            /\ camera = InitialCamera
            /\ lastSession = [level |-> n, board |-> Text(stringify(b))]
            /\ userId = "none"
            /\ gameStarted = FALSE
            /\ signIn = "failed"
            /\ loadState = "idle"
            /\ saveQueue = << >>
            /\ authUser = "none"
            /\ stored = noDocument
            /\ session = 1
            /\ lastOp = Op("toggleQueen", last,
                           [ levelCompleted |-> FALSE,
                             board |-> boardOf(Prepared(n) \ {last}, n),
                             conflictSet |-> {}, conflictCount |-> 0 ])
            /\ call = noCall
            /\ ret = noReturn
            /\ isCreativeMode = FALSE

SolveNext ==
    \/ \E c \in SolveCells(N) : ToggleQueen(c, Cardinality(cubes))
    \/ ResetLevel
    \/ RestoreLastSession

SpecSolve == SolveInit /\ [][SolveNext]_vars

(***************************************************************************)
(* Claims                                                                  *)
(***************************************************************************)
\* C1: for distinct cells a and b, isQueenAttacking(a, b) is true exactly when,
\* with dx, dy, dz the absolute coordinate differences, two of them are 0, or
\* one is 0 and the other two are equal, or all three are equal and nonzero.
C1_AttackRule ==
    (call.fn = "isQueenAttacking" /\ ret.done /\ call.args[1] # call.args[2]) =>
        LET a == call.args[1]
            b == call.args[2]
            dx == Abs(a.x - b.x)
            dy == Abs(a.y - b.y)
            dz == Abs(a.z - b.z)
            twoZero == Cardinality({ i \in 1..3 : << dx, dy, dz >>[i] = 0 }) >= 2
            planar == \/ dx = 0 /\ dy = dz
                      \/ dy = 0 /\ dx = dz
                      \/ dz = 0 /\ dx = dy
            space == dx = dy /\ dy = dz /\ dx # 0
        IN  ret.value <=> (twoZero \/ planar \/ space)

\* a space-diagonal attack two steps long was decided, and so was a knight-like miss
C1_Witness ==
    /\ call.fn = "isQueenAttacking" /\ ret.done /\ ret.value
    /\ Abs(call.args[1].x - call.args[2].x) = 2
    /\ Abs(call.args[1].y - call.args[2].y) = 2
    /\ Abs(call.args[1].z - call.args[2].z) = 2

\* C2: getConflicts returns exactly the queens attacked by some other queen of
\* the list, and its count is the number of those queens.
C2_ConflictSet ==
    (call.fn = "getConflicts" /\ ret.done) =>
        LET Q == { call.args[1][i] : i \in 1..Len(call.args[1]) }
            attacked == { q \in Q : \E r \in Q :
                            r # q /\ isQueenAttacking(r.x, r.y, r.z, q.x, q.y, q.z) }
        IN  /\ ret.value.set = attacked
            /\ ret.value.count = Cardinality(attacked)

\* three queens, two of them in one attacking pair and the third attacked by none
C2_Witness ==
    /\ call.fn = "getConflicts" /\ ret.done
    /\ Len(call.args[1]) = 3
    /\ ret.value.count = 2
    /\ Cardinality(ret.value.set) = 2

\* C3: after every toggle the level is completed exactly when no two queens of
\* the board attack each other and the board holds at least target(N) queens.
C3_CompletedIffTargetMet ==
    lastOp.op = "toggleQueen" =>
        LET Q == { c \in Cells(N) : board[c.z][c.y][c.x] }
            conflictFree == \A a \in Q, b \in Q :
                                ~isQueenAttacking(a.x, a.y, a.z, b.x, b.y, b.z)
        IN  levelCompleted <=> (conflictFree /\ Cardinality(Q) >= getLevelTarget(N))

\* a conflicting queen was added to a completed position, which is no longer completed
C3_Witness ==
    /\ lastOp.op = "toggleQueen"
    /\ lastOp.pre.levelCompleted
    /\ board[lastOp.arg.z][lastOp.arg.y][lastOp.arg.x]
    /\ conflictCount > 0
    /\ ~levelCompleted

\* C4: getLevelTarget returns the table value for levels 0..16 and
\* floor(level * level / 2) from level 17 on.
C4_TargetTable ==
    (call.fn = "getLevelTarget" /\ ret.done) =>
        LET level == call.args[1]
            table == << 0, 1, 1, 4, 8, 12, 18, 24, 32, 42, 52, 64, 78, 94, 112, 132, 154 >>
        IN  /\ level <= 16 => ret.value = table[level + 1]
            /\ level >= 17 => /\ 2 * ret.value <= level * level
                               /\ level * level < 2 * ret.value + 2

\* level 17, the first one past the table, was answered by the approximation
C4_Witness ==
    /\ call.fn = "getLevelTarget" /\ ret.done
    /\ call.args[1] = 17
    /\ ret.value = 144

\* the cells in the order the board is walked: z outermost, x innermost
cellIndex(c, n) == (c.z * n + c.y) * n + c.x

\* the most queens, taken from cands in walking order, no two attacking
RECURSIVE MaxNonAttacking(_, _)
MaxNonAttacking(cands, n) ==
    IF cands = {} THEN 0
    ELSE LET c == CHOOSE d \in cands : \A e \in cands : cellIndex(d, n) <= cellIndex(e, n)
             rest == cands \ {c}
             free == { d \in rest : ~isQueenAttacking(c.x, c.y, c.z, d.x, d.y, d.z) }
         IN  Max(1 + MaxNonAttacking(free, n), MaxNonAttacking(rest, n))

\* C5: for every level N from 1 to SearchSide, the target getLevelTarget
\* returns is the largest number of queens that can stand on the N x N x N
\* board with no two attacking each other.
C5_TargetIsMaximum ==
    (call.fn = "getLevelTarget" /\ ret.done /\ call.args[1] \in 1..SearchSide) =>
        ret.value = MaxNonAttacking(Cells(call.args[1]), call.args[1])

\* C6: no step lowers the best score the store holds for a level, and no
\* step of a session lowers the best score the page holds for a level.
C6_BestNeverDecreases ==
    [][ /\ \A l \in Levels : stored'.scores[l] >= stored.scores[l]
        /\ session' = session => \A l \in Levels : bestScores'[l] >= bestScores[l] ]_vars

Counters == { "minX", "maxX", "minY", "maxY", "minZ", "maxZ" }

\* the counters of the two faces of an axis
FacesOf(axis) ==
    IF axis = "x" THEN { "minX", "maxX" }
    ELSE IF axis = "y" THEN { "minY", "maxY" }
    ELSE { "minZ", "maxZ" }

\* C7: each hidden-layer counter lies in 0..N-1 and the two counters of an
\* axis sum to at most N-1.
C7_CountersBounded ==
    /\ \A k \in Counters : hiddenLayers[k] >= 0 /\ hiddenLayers[k] <= N - 1
    /\ hiddenLayers.minX + hiddenLayers.maxX <= N - 1
    /\ hiddenLayers.minY + hiddenLayers.maxY <= N - 1
    /\ hiddenLayers.minZ + hiddenLayers.maxZ <= N - 1

\* a request asked to hide one more layer from a face that hid N-1 already,
\* the opposite face hiding none: the counter was held at N-1
C7_Witness ==
    /\ lastOp.op = "changeRelativeLayer"
    /\ N >= 2
    /\ LET axes == getRelativeAxes(camera)
           own == axes[lastOp.arg].prop
           opp == axes[opposite[lastOp.arg]].prop
       IN  /\ own # opp
           /\ lastOp.pre[opp] = 0
           /\ lastOp.pre[own] = N - 1
           /\ hiddenLayers[own] = N - 1

\* C8 (as claimed): a left or right request changes counters of the x axis
\* only when |right.x| > |right.z| and of the z axis only otherwise; an up or
\* down request changes counters of the y axis only.
C8_AxisOfRequest ==
    lastOp.op = "changeRelativeLayer" =>
        LET right == crossVectors(camera, Vec(0, 1, 0))
            axis == IF lastOp.arg \in { "up", "down" } THEN "y"
                    ELSE IF Abs(right.x) > Abs(right.z) THEN "x" ELSE "z"
        IN  \A k \in Counters \ FacesOf(axis) : hiddenLayers[k] = lastOp.pre[k]

\* C9: a relative layer request lowers the counter of the face opposite to its
\* direction by one, and leaves its own counter alone, when that opposite
\* counter is at least 1; only when it is 0 is its own counter raised by one,
\* and held at N-1.  The faces are the ones getRelativeAxes names.
C9_OppositeFirst ==
    lastOp.op = "changeRelativeLayer" =>
        LET axes == getRelativeAxes(camera)
            own == axes[lastOp.arg].prop
            opp == axes[opposite[lastOp.arg]].prop
            pre == lastOp.pre
        IN  IF pre[opp] >= 1
            THEN /\ hiddenLayers[opp] = pre[opp] - 1
                 /\ own # opp => hiddenLayers[own] = pre[own]
            ELSE hiddenLayers[own] = Min(pre[own] + 1, N - 1)

\* a request found two layers hidden from the opposite face and revealed one
C9_Witness ==
    /\ lastOp.op = "changeRelativeLayer"
    /\ LET axes == getRelativeAxes(camera)
           own == axes[lastOp.arg].prop
           opp == axes[opposite[lastOp.arg]].prop
       IN  /\ own # opp
           /\ lastOp.pre[opp] = 2
           /\ hiddenLayers[opp] = 1
           /\ hiddenLayers[own] = 0

\* C10 (as claimed): a cell is visible exactly when each coordinate lies
\* strictly between the min counter of its axis and N minus the max counter.
C10_StrictlyBetween ==
    cubeVisible =
        { c \in cubes :
            /\ hiddenLayers.minX < c.x /\ c.x < N - hiddenLayers.maxX
            /\ hiddenLayers.minY < c.y /\ c.y < N - hiddenLayers.maxY
            /\ hiddenLayers.minZ < c.z /\ c.z < N - hiddenLayers.maxZ }

\* C10 (amended): a cell is visible exactly when each coordinate c satisfies
\* min <= c < N - max for the two counters of its axis; the same holds of the
\* queens, and nothing else enters.
C10_VisibleRange ==
    LET inRange(c) ==
            /\ hiddenLayers.minX <= c.x /\ c.x < N - hiddenLayers.maxX
            /\ hiddenLayers.minY <= c.y /\ c.y < N - hiddenLayers.maxY
            /\ hiddenLayers.minZ <= c.z /\ c.z < N - hiddenLayers.maxZ
    IN  /\ cubeVisible = { c \in cubes : inRange(c) }
        /\ queenVisible = { queens[i] : i \in { j \in 1..Len(queens) : inRange(queens[j]) } }

\* a layer is hidden from the min face of x: the cells on the first layer left
\* are visible, the cells below it are not, and a queen is among the hidden
C10_Witness ==
    /\ lastOp.op = "changeRelativeLayer"
    /\ hiddenLayers.minX = 1
    /\ \E c \in cubeVisible : c.x = hiddenLayers.minX
    /\ \E c \in cubes \ cubeVisible : c.x = 0
    /\ Len(queens) = 1
    /\ queenVisible = {}

\* C11: under one camera direction, a left request followed at once by a
\* right request leaves the six counters as they were before the two, when
\* before them neither counter the requests name stood at N-1, where the
\* clamp holds it.
C11_LeftThenRightCancels ==
    (lastOp.op = "changeRelativeLayer" /\ lastOp.left.followed) =>
        LET axes == getRelativeAxes(camera)
            faces == { axes["left"].prop, axes["right"].prop }
        IN  (\A k \in faces : lastOp.left.pre[k] < N - 1)
                => hiddenLayers = lastOp.left.pre

\* a left request hid a second layer and the right request that followed
\* revealed it again
C11_Witness ==
    /\ lastOp.op = "changeRelativeLayer" /\ lastOp.left.followed
    /\ N = 3
    /\ LET own == getRelativeAxes(camera)["left"].prop
       IN  /\ lastOp.left.pre[own] = 1
           /\ lastOp.pre[own] = 2
           /\ hiddenLayers[own] = 1

\* C12: a reset request leaves all six counters at 0, whatever the requests
\* before it hid.
C12_ResetZeroes ==
    lastOp.op = "changeLayer" => hiddenLayers = noHiddenLayers

\* a reset found layers hidden on the x axis and on the y axis
C12_Witness ==
    /\ lastOp.op = "changeLayer"
    /\ lastOp.pre.minX + lastOp.pre.maxX >= 1
    /\ lastOp.pre.minY + lastOp.pre.maxY >= 1
    /\ hiddenLayers = noHiddenLayers

\* the handlers that start a level
StartOps == { "nextLevel", "navigateLevel", "levelInput", "restoreLastSession" }

C14_EdgeTriggered ==
    [][ /\ (~levelCompleted /\ levelCompleted') => notified' # "none"
        /\ (lastOp'.op = "toggleQueen" /\ levelCompleted /\ levelCompleted')
               => notified' = "none" ]_vars

\* the thirteenth queen was added to the twelve that completed level 5: the
\* level stays completed and no message is shown
C14_Witness ==
    /\ lastOp.op = "toggleQueen"
    /\ lastOp.pre.levelCompleted
    /\ levelCompleted
    /\ N = 5
    /\ Len(queens) = 13
    /\ notified = "none"

\* C15: when a toggle takes the level from not completed to completed and the
\* board then holds more queens than the best score kept for N before the
\* toggle, the message shown is the New Record one and the best score for N
\* becomes that number of queens.
C15_RecordOnNewBest ==
    [][ ( /\ lastOp'.op = "toggleQueen"
          /\ ~levelCompleted /\ levelCompleted'
          /\ Len(queens') > bestScores[N] )
        => /\ notified' = "New Record!"
           /\ bestScores'[N] = Len(queens') ]_vars

\* C16: resetLevel leaves the board of the current level without a queen, the
\* level not completed and the next-level button disabled, whatever it found.
C16_ResetClears ==
    lastOp.op = "resetLevel" =>
        /\ board = initializeBoard(N)
        /\ queens = << >>
        /\ ~levelCompleted
        /\ unlockStatus = "none"
        /\ nextLevelBtn = "disabled"

\* a completed level was reset
C16_Witness ==
    /\ lastOp.op = "resetLevel"
    /\ lastOp.pre = TRUE
    /\ queens = << >>
    /\ ~levelCompleted

\* C17: nextLevel starts level N+1 when the level is completed, and changes
\* neither the level, the board, the counters nor the best scores when it is not.
C17_NextOnlyWhenCompleted ==
    [][ lastOp'.op = "nextLevel" =>
            IF levelCompleted
            THEN currentLevel' = currentLevel + 1 /\ N' = N + 1
            ELSE UNCHANGED << gameVars, bestScores >> ]_vars

\* level 1 was completed and nextLevel started level 2
C17_Witness ==
    /\ lastOp.op = "nextLevel"
    /\ lastOp.pre.started
    /\ currentLevel = 2
    /\ N = 2
    /\ queens = << >>

C19_OutOfRangeRejected ==
    [][ ( /\ call.fn = "toggleQueen" /\ ~ret.done /\ ret'.done
          /\ \E i \in 1..3 : call.args[i] \notin 0..(N - 1) )
        => /\ ret'.value # "TypeError"
           /\ UNCHANGED << board, queens, conflictSet, conflictCount, levelCompleted,
                           unlockStatus, bestScores >> ]_vars

\* C20: restoring a session whose saved board is a text JSON.parse rejects
\* starts the saved level on an empty board of that level, and throws nothing.
C20_MalformedFallsBack ==
    [][ ( /\ lastOp'.op = "restoreLastSession"
          /\ ~lastSession.board.isNull /\ ~lastSession.board.parses )
        => /\ lastOp'.arg # "SyntaxError"
           /\ currentLevel' = lastSession.level
           /\ N' = lastSession.level
           /\ board' = initializeBoard(lastSession.level) ]_vars

\* C21: when sign-in or the load fails, level 1 is started on an empty board
\* with the best scores and the last session the script holds in memory; a
\* failed save changes nothing of the game; after a failure resetting, changing
\* level and clicking a cube stay possible, and a click leaves in memory what
\* it leaves when a user is signed in and every write succeeds.
C21_FailureKeepsPlaying ==
    [][ /\ lastOp'.op \in {"signInRejected", "loadRejected"}
            => /\ currentLevel' = 1
               /\ N' = 1
               /\ board' = initializeBoard(1)
               /\ cubes' = Cells(1)
               /\ queens' = << >>
               /\ ~levelCompleted'
               /\ bestScores' = bestScores
               /\ lastSession' = lastSession
        /\ lastOp'.op = "saveRejected"
            => UNCHANGED << gameVars, bestScores, lastSession >>
        /\ (cubes # {} /\ (signIn = "failed" \/ lastOp.op \in {"loadRejected", "saveRejected"}))
            => /\ ENABLED ResetLevel
               /\ ENABLED LevelInput(MaxLevel)
               /\ (userId = "none" \/ saveQueue = << >>)
                      => ENABLED ToggleQueen(Cell(0, 0, 0), StoreQueens)
        /\ lastOp'.op = "toggleQueen"
            => LET c == lastOp'.arg
                   b == [board EXCEPT ![c.z][c.y][c.x] = ~@]
                   d == updateDisplay(b, N, hiddenLayers, cubes, bestScores,
                                      unlockStatus, "u1", lastSession)
               IN  /\ board' = b
                   /\ queens' = d.queens
                   /\ conflictSet' = d.conflictSet
                   /\ levelCompleted' = d.levelCompleted
                   /\ nextLevelBtn' = d.nextLevelBtn
                   /\ bestScores' = d.bestScores
                   /\ lastSession' = [level |-> currentLevel, board |-> Text(stringify(b))] ]_vars

\* a queen placed, and a best score made, after sign-in failed
C21_Witness ==
    /\ signIn = "failed"
    /\ lastOp.op = "toggleQueen"
    /\ Len(queens) = 1
    /\ bestScores[N] = 1
    /\ board = [initializeBoard(N) EXCEPT ![0][0][0] = TRUE]

\* C22: with a user signed in, every toggle, reset, level start and session
\* restore that changes the board or a best score issues at least one save,
\* and every save it issues carries the best scores, the level and the
\* serialized board the script holds when the handler returns.
C22_SavedAfterEveryChange ==
    [][ ( /\ userId # "none"
          /\ lastOp'.op \in {"toggleQueen", "resetLevel", "nextLevel", "navigateLevel",
                             "levelInput", "restoreLastSession"}
          /\ (board' # board \/ bestScores' # bestScores) )
        => LET issued == SubSeq(saveQueue', Len(saveQueue) + 1, Len(saveQueue'))
           IN  /\ issued # << >>
               /\ \A i \in 1..Len(issued) :
                      /\ issued[i].scores = bestScores'
                      /\ issued[i].lastSession =
                             [level |-> currentLevel', board |-> Text(stringify(board'))] ]_vars

\* C23: in every state a handler or a settled promise leaves, once a board
\* exists, the queens shown are the occupied cells of the board, the
\* conflicts painted and counted are those of these queens, the progress
\* state is the one these queens give, and the best score of the level is
\* not below a conflict-free count shown.
C23_DisplayMatchesBoard ==
    board # << >> =>
        /\ DOMAIN board = 0..(N - 1)
        /\ queens = queensOf(board, N)
        /\ conflictSet = getConflicts(queens).set
        /\ conflictCount = Cardinality(conflictSet)
        /\ levelCompleted = (conflictCount = 0 /\ Len(queens) >= getLevelTarget(N))
        /\ (unlockStatus = "perfect") = levelCompleted
        /\ (nextLevelBtn = "enabled") = levelCompleted
        /\ conflictCount = 0 => bestScores[N] >= Len(queens)

\* two queens that attack each other are shown while a save is in flight
C23_Witness ==
    /\ saveQueue # << >>
    /\ Len(queens) = 2
    /\ conflictCount = 2
    /\ lastOp.op = "toggleQueen"

\* C24: once a level has started, whatever handlers ran since, the board
\* is an array of N arrays of N arrays of N booleans, N the size of the
\* current level, with no other element.
C24_BoardIsCube ==
    board # << >> =>
        /\ N = currentLevel
        /\ DOMAIN board = 0..(N - 1)
        /\ \A z \in DOMAIN board :
              /\ DOMAIN board[z] = 0..(N - 1)
              /\ \A y \in DOMAIN board[z] :
                    /\ DOMAIN board[z][y] = 0..(N - 1)
                    /\ \A x \in DOMAIN board[z][y] : board[z][y][x] \in BOOLEAN

\* the board of level 2 with a queen on it, restored from the document
\* after the page was loaded again
C24_Witness ==
    /\ session = 2
    /\ lastOp.op = "restoreLastSession"
    /\ lastOp.pre.started
    /\ N = 2
    /\ board = [initializeBoard(2) EXCEPT ![0][0][0] = TRUE]

\* C25: isQueenAttacking called with the same cell twice returns false.
C25_NoSelfAttack ==
    (call.fn = "isQueenAttacking" /\ ret.done /\ call.args[1] = call.args[2])
        => ret.value = FALSE

\* the call was made with an inner cell of the lattice as both arguments
C25_Witness ==
    /\ call.fn = "isQueenAttacking" /\ ret.done
    /\ call.args[1] = Cell(1, 2, 0)
    /\ call.args[2] = Cell(1, 2, 0)
    /\ ret.value = FALSE

\* C26: what isQueenAttacking returns for (a, b) is what it returns for (b, a).
C26_AttackSymmetric ==
    (call.fn = "isQueenAttacking" /\ ret.done) =>
        LET a == call.args[1]
            b == call.args[2]
        IN  ret.value = isQueenAttacking(b.x, b.y, b.z, a.x, a.y, a.z)

\* an attack along a planar diagonal was decided, called from its far end
C26_Witness ==
    /\ call.fn = "isQueenAttacking" /\ ret.done /\ ret.value
    /\ call.args[1] = Cell(2, 1, 0)
    /\ call.args[2] = Cell(0, 1, 2)

\* C27: getConflicts called with no queen, or with one queen, returns the
\* empty set and the count 0.
C27_NoneOrOneNoConflict ==
    (call.fn = "getConflicts" /\ ret.done /\ Len(call.args[1]) <= 1)
        => /\ ret.value.set = {}
           /\ ret.value.count = 0

\* the call was made with one queen, on the far corner of the board
C27_Witness ==
    /\ call.fn = "getConflicts" /\ ret.done
    /\ call.args[1] = << Cell(ConflictSide - 1, ConflictSide - 1, ConflictSide - 1) >>
    /\ ret.value.count = 0

\* C28: two distinct cells attack each other exactly when their difference
\* is a nonzero integer multiple of one of the 13 directions (3 along an
\* axis, 6 planar diagonals, 4 space diagonals, each taken up to sign), and
\* the set getConflicts returns is the set found by bucketing the queens by
\* the lines of these directions and keeping every bucket of two or more.
C28_ThirteenDirections ==
    (call.fn = "getConflicts" /\ ret.done) =>
        LET Q == { call.args[1][i] : i \in 1..Len(call.args[1]) }
            units == { Cell(x, y, z) : x \in {-1, 0, 1}, y \in {-1, 0, 1}, z \in {-1, 0, 1} }
            families == { d \in units :
                            \/ d.x = 1
                            \/ d.x = 0 /\ d.y = 1
                            \/ d.x = 0 /\ d.y = 0 /\ d.z = 1 }
            steps == (-(ConflictSide - 1)..(ConflictSide - 1)) \ {0}
            onLine(a, b, d) == \E k \in steps : /\ b.x - a.x = k * d.x
                                                /\ b.y - a.y = k * d.y
                                                /\ b.z - a.z = k * d.z
            bucket(q, d) == { r \in Q : r = q \/ onLine(q, r, d) }
            buckets == { bucket(q, d) : q \in Q, d \in families }
            bucketed == UNION { B \in buckets : Cardinality(B) >= 2 }
        IN  /\ Cardinality(families) = 13
            /\ \A a \in Q, b \in Q :
                  a # b => ( isQueenAttacking(a.x, a.y, a.z, b.x, b.y, b.z)
                                <=> \E d \in families : onLine(a, b, d) )
            /\ ret.value.set = bucketed

\* three queens: two on one space diagonal two steps apart, the third a
\* knight's move away from both
C28_Witness ==
    /\ call.fn = "getConflicts" /\ ret.done
    /\ { call.args[1][i] : i \in 1..Len(call.args[1]) }
           = { Cell(0, 0, 0), Cell(2, 2, 2), Cell(1, 2, 0) }
    /\ ret.value.set = { Cell(0, 0, 0), Cell(2, 2, 2) }

\* C29: in the earlier variant, a toggle made while creative mode is on
\* changes no best score, leaves the level not completed and the next-level
\* button disabled, whatever the queens and conflicts; switching creative
\* mode on or off starts the current level again: the mode is inverted, the
\* board is empty, and the level is not completed.
C29_CreativeKeepsNoScore ==
    [][ /\ (lastOp'.op = "toggleQueen" /\ isCreativeMode)
            => /\ bestScores' = bestScores
               /\ ~levelCompleted'
               /\ nextLevelBtn' = "disabled"
               /\ notified' = "none"
        /\ lastOp'.op = "toggleCreativeMode"
            => /\ isCreativeMode' = ~isCreativeMode
               /\ currentLevel' = currentLevel
               /\ N' = currentLevel
               /\ board' = initializeBoard(currentLevel)
               /\ queens' = << >>
               /\ ~levelCompleted'
               /\ nextLevelBtn' = "disabled" ]_vars

\* in creative mode the one cell of level 1 holds a queen, which meets the
\* target of the level without conflict, and no best score was made
C29_Witness ==
    /\ isCreativeMode
    /\ lastOp.op = "toggleQueen"
    /\ N = 1
    /\ Len(queens) = 1
    /\ conflictCount = 0
    /\ bestScores[1] = 0
    /\ ~levelCompleted

\* C30: for every level N from 1 to SearchSide there is a set of cells that
\* toggles can fill from the empty board and that updateDisplay answers with
\* the completed state, i.e. a set of at least getLevelTarget(N) cells no two
\* of which attack each other; at level 1 one queen is such a set.
C30_LevelsCanBeCompleted ==
    (call.fn = "getLevelTarget" /\ ret.done /\ call.args[1] \in 1..SearchSide) =>
        LET n == call.args[1]
        IN  /\ MaxNonAttacking(Cells(n), n) >= ret.value
            /\ n = 1 => ret.value <= 1

\* C31: within a page load the best score the script holds for a level is
\* the largest of the value loaded for it and the conflict-free queen counts
\* shown on it so far: a step raises the best score of the level shown to a
\* conflict-free count above it, the load merges the loaded value in, and
\* nothing else changes a best score (a count with conflicts never does).
C31_BestIsMaxObserved ==
    [][ session' = session =>
          LET base == IF lastOp'.op = "loadResolved" /\ stored.exists
                      THEN [l \in Levels |-> Max(bestScores[l], stored.scores[l])]
                      ELSE bestScores
          IN  \A l \in Levels :
                bestScores'[l] = IF l = N' /\ conflictCount' = 0
                                 THEN Max(base[l], Len(queens'))
                                 ELSE base[l] ]_vars

\* C32: within a page load startup calls startLevel(1) at most once: the
\* continuation of the load does not run it after the offline fallback has,
\* nor the fallback after the load has; in particular a load that settles
\* after the fallback leaves the best scores, the level and the board alone.
C32_StartsOnce ==
    [][ /\ lastOp'.op \in {"loadResolved", "loadRejected"}
            => /\ signIn # "failed"
               /\ signIn = "failed"
                      => UNCHANGED << bestScores, currentLevel, board >>
        /\ lastOp'.op = "signInRejected" => loadState # "done" ]_vars

\* C33: a restore of the last session that follows a toggle at once leaves
\* the level, the board, the queens and the conflict set as the toggle left
\* them: JSON.stringify followed by JSON.parse gives the board back.
C33_RestoreAfterToggle ==
    [][ (lastOp.op = "toggleQueen" /\ lastOp'.op = "restoreLastSession")
        => /\ lastOp'.pre.started
           /\ currentLevel' = currentLevel
           /\ N' = N
           /\ board' = board
           /\ parse(stringify(board)) = board
           /\ queens' = queens
           /\ conflictSet' = conflictSet
           /\ conflictCount' = conflictCount ]_vars

\* the restore gave back a board of level 2 on which two queens attack
\* each other along a planar diagonal
C33_Witness ==
    /\ lastOp.op = "restoreLastSession"
    /\ lastOp.pre.started
    /\ N = 2
    /\ board = boardOf({ Cell(1, 0, 0), Cell(0, 1, 0) }, 2)
    /\ conflictCount = 2
    /\ lastSession = [level |-> 2, board |-> Text(stringify(board))]

\* C34: a click on the cell that was clicked in the step before leaves the
\* board, the conflict set, the conflict count and the completed state as
\* they were before the first of the two clicks.
C34_DoubleToggleRestores ==
    [][ ( /\ lastOp.op = "toggleQueen"
          /\ lastOp'.op = "toggleQueen"
          /\ lastOp'.arg = lastOp.arg )
        => /\ board' = lastOp.pre.board
           /\ conflictSet' = lastOp.pre.conflictSet
           /\ conflictCount' = lastOp.pre.conflictCount
           /\ levelCompleted' = lastOp.pre.levelCompleted
           /\ (nextLevelBtn' = "enabled") = lastOp.pre.levelCompleted ]_vars

\* a queen that attacked the one on the board was placed and taken off
\* again: the step before the last placed it, the last removed it
C34_Witness ==
    /\ lastOp.op = "toggleQueen"
    /\ lastOp.pre.conflictCount = 2
    /\ lastOp.pre.board[lastOp.arg.z][lastOp.arg.y][lastOp.arg.x]
    /\ Len(queens) = 1
    /\ conflictCount = 0
    /\ N = 2

\* C35: a request to hide or reveal a layer, or to reset the layers, leaves
\* the board, the queens, the conflicts, the completed state, the level, the
\* best scores and the last session as they were (nothing is saved either);
\* queens on hidden layers keep their place in the conflicts and the count.
C35_LayersOnlyHide ==
    [][ lastOp'.op \in {"changeRelativeLayer", "changeLayer"}
        => /\ UNCHANGED << board, queens, conflictSet, conflictCount, levelCompleted,
                           unlockStatus, nextLevelBtn, currentLevel, N, bestScores,
                           lastSession, saveQueue, cubes >>
           /\ cubeVisible' = { c \in cubes : isVisible(c, N, hiddenLayers') }
           /\ LET qs == queensOf(board, N)
              IN  /\ queenVisible' = { c \in { qs[i] : i \in 1..Len(qs) } :
                                         isVisible(c, N, hiddenLayers') }
                  /\ conflictSet' = getConflicts(qs).set
                  /\ conflictCount' = getConflicts(qs).count
                  /\ levelCompleted' = (/\ getConflicts(qs).count = 0
                                        /\ Len(qs) >= getLevelTarget(N)) ]_vars

\* one of two queens that attack each other was hidden by a layer request:
\* both are still in conflict
C35_Witness ==
    /\ lastOp.op = "changeRelativeLayer"
    /\ N = 2
    /\ Len(queens) = 2
    /\ Cardinality(queenVisible) = 1
    /\ conflictCount = 2
    /\ hiddenLayers # lastOp.pre

\* C36: under every camera direction reached (left and right always name two
\* different faces, and so do up and down), at most one of the two counters
\* of an axis is nonzero: the visible slab touches an outer face of the cube.
C36_SlabTouchesFace ==
    /\ \A v \in CameraDirs :
          /\ getRelativeAxes(v).left.prop # getRelativeAxes(v).right.prop
          /\ getRelativeAxes(v).up.prop # getRelativeAxes(v).down.prop
    /\ camera \in CameraDirs
    /\ hiddenLayers.minX = 0 \/ hiddenLayers.maxX = 0
    /\ hiddenLayers.minY = 0 \/ hiddenLayers.maxY = 0
    /\ hiddenLayers.minZ = 0 /\ hiddenLayers.maxZ = 0

\* two layers were hidden from the max face of level 3, and a request that
\* names the min face has revealed one of them rather than hidden a layer
C36_Witness ==
    /\ lastOp.op = "changeRelativeLayer"
    /\ N = 3
    /\ getRelativeAxes(camera)[lastOp.arg].prop = "minX"
    /\ lastOp.pre.maxX = 2
    /\ hiddenLayers.maxX = 1
    /\ hiddenLayers.minX = 0

\* C37: in every state the conflict count is 0 or at least 2, never 1, and
\* every member of the conflict set is one of the queens on the board.
C37_NeverOneConflict ==
    /\ conflictCount # 1
    /\ conflictCount = Cardinality(conflictSet)
    /\ conflictSet \subseteq { queens[i] : i \in 1..Len(queens) }
    /\ \A c \in conflictSet : board[c.z][c.y][c.x]

\* a second queen was placed in line with the first: the count went from 0
\* to 2 and both queens are in the conflict set
C37_Witness ==
    /\ lastOp.op = "toggleQueen"
    /\ lastOp.pre.conflictCount = 0
    /\ Len(queens) = 2
    /\ conflictCount = 2
    /\ lastOp.arg \in conflictSet

====
